---- MODULE Spec2Model ----
(***************************************************************************)
(* pygltfio: the GLB container decoder (glb.py), the entry point           *)
(* parse_path (__init__.py), the buffer reader and the scene assembler     *)
(* GltfData.parse (parser.py), and the typed view GltfAccessorSlice        *)
(* (types.py).                                                             *)
(*                                                                         *)
(* Python values: bytes are sequences of 0..255; Optional[x] is <<>> for   *)
(* None and <<x>> for a value; a raised exception is the name of its       *)
(* class, "None" when nothing was raised.                                  *)
(***************************************************************************)
EXTENDS Integers, Sequences, FiniteSets, TLC

VARIABLES
    \* parse_path / parse_glb (one call of parse_path)
    data,          \* path.read_bytes()
    pc,            \* position in parse_path / parse_glb
    pos,           \* BytesReader.pos
    length,        \* parse_glb: the header's total length
    json_chunk,    \* parse_glb: Optional[bytes]
    bin_chunk,     \* parse_glb: Optional[bytes]
    chunks,        \* history: the chunks the loop consumed, <<type, payload, pos before>>
    glb_exc,       \* the exception parse_glb raised
    outcome,       \* what parse_path did last: the parse_gltf call or the raise
    \* GltfBufferReader (one parse session)
    gltf,          \* the JSON document (json.loads)
    bin,           \* self.bin: Optional[bytes]
    has_path,      \* whether self.path is set
    uri_cache,     \* self.uri_cache: Optional[bytes] per URI, None for a missing key
    decodes,       \* history: per URI, the base64 decodes / file reads that returned
    calls,         \* history: the number of calls made on the reader
    uri_ret,       \* the last uri_bytes call: its URI, exception and return value
    slice,         \* the last read_accessor call: its accessor, exception and GltfAccessorSlice
    item,          \* the last get_item call: its index, exception and view
    \* GltfData (one call of parse)
    pass,          \* the pass parse is in, "done" after its last statement, "raised"
    idx,           \* the loop variable i of the pass
    images,        \* self.images
    textures,      \* self.textures
    materials,     \* self.materials
    meshes,        \* self.meshes
    nodes,         \* self.nodes; a reference to a node is its position (from 0) here
    skins,         \* self.skins; a reference to a skin is its position (from 0) here
    scene,         \* self.scene
    animations,    \* self.animations
    error          \* the exception parse raised

glbVars == <<data, pc, pos, length, json_chunk, bin_chunk, chunks, glb_exc, outcome>>
readerVars == <<gltf, bin, has_path, uri_cache, decodes, calls, uri_ret, slice, item>>

dataVars == <<pass, idx, images, textures, materials, meshes, nodes, skins, scene,
              animations, error>>

vars == <<glbVars, readerVars, dataVars>>

None == <<>>
Some(x) == <<x>>

(***************************************************************************)
(* Python's sequence semantics                                             *)
(***************************************************************************)

\* a slice bound, as s[a:b] normalises it against len(s) = n
PyClamp(k, n) ==
    IF k < 0 THEN (IF n + k < 0 THEN 0 ELSE n + k)
    ELSE (IF k > n THEN n ELSE k)

\* s[a:b]: never fails, clamps both bounds, negative bounds count from the end
PySlice(s, a, b) ==
    LET lo == PyClamp(a, Len(s))
        hi == PyClamp(b, Len(s))
    IN IF lo < hi THEN SubSeq(s, lo + 1, hi) ELSE <<>>

\* whether s[k] exists for a list s: -len(s) <= k < len(s), else IndexError
PyIndexOk(s, k) == -Len(s) <= k /\ k < Len(s)

\* s[k] for a list s: a negative k counts from the end
PyAt(s, k) == IF k >= 0 THEN s[k + 1] ELSE s[Len(s) + k + 1]

\* bool(x) of a bytes object or of None
Truthy(opt) == opt # None /\ Len(opt[1]) > 0

(***************************************************************************)
(* parser.py: GltfBufferReader                                             *)
(***************************************************************************)

\* the URIs of the documents, with what Python makes of each:
\*   data   uri.startswith('data:')
\*   match  DATA_URI.match(uri) is not None; mime = m[1], payload = m[2]
\*   file   urllib.parse.unquote(uri)
\*   suffix pathlib.Path(uri).suffix.lower()
UriInfo(uri) ==
    CASE uri = "data:application/octet-stream;base64,AQIDBA==" ->
            [data |-> TRUE, match |-> TRUE, mime |-> "application/octet-stream",
             payload |-> "AQIDBA==", file |-> "", suffix |-> ""]
      [] uri = "data:;base64," ->
            [data |-> TRUE, match |-> TRUE, mime |-> "", payload |-> "", file |-> "", suffix |-> ""]
      [] uri = "data:;base64,AQI" ->
            [data |-> TRUE, match |-> TRUE, mime |-> "", payload |-> "AQI", file |-> "", suffix |-> ""]
      [] uri = "data:text/plain,abc" ->
            [data |-> TRUE, match |-> FALSE, mime |-> "", payload |-> "", file |-> "", suffix |-> ""]
      [] uri = "data:image/png;base64,AQIDBA==" ->
            [data |-> TRUE, match |-> TRUE, mime |-> "image/png",
             payload |-> "AQIDBA==", file |-> "", suffix |-> ""]
      [] uri = "tex.PNG" ->
            [data |-> FALSE, match |-> FALSE, mime |-> "", payload |-> "", file |-> "tex.PNG",
             suffix |-> ".png"]
      [] uri = "buf%2Ebin" ->
            [data |-> FALSE, match |-> FALSE, mime |-> "", payload |-> "", file |-> "buf.bin", suffix |-> ".bin"]
      [] uri = "empty.bin" ->
            [data |-> FALSE, match |-> FALSE, mime |-> "", payload |-> "", file |-> "empty.bin", suffix |-> ".bin"]
      [] uri = "missing.bin" ->
            [data |-> FALSE, match |-> FALSE, mime |-> "", payload |-> "", file |-> "missing.bin", suffix |-> ".bin"]

URIS == {"data:application/octet-stream;base64,AQIDBA==", "data:;base64,", "data:;base64,AQI",
         "data:text/plain,abc", "data:image/png;base64,AQIDBA==", "tex.PNG",
         "buf%2Ebin", "empty.bin", "missing.bin"}

\* base64.urlsafe_b64decode(payload): the bytes, or None for binascii.Error
B64Decode(payload) ==
    CASE payload = "AQIDBA==" -> Some(<<1, 2, 3, 4>>)
      [] payload = "" -> Some(<<>>)
      [] OTHER -> None

\* (self.path.parent / name).read_bytes(): the bytes, or None for FileNotFoundError
FileBytes(name) ==
    CASE name = "buf.bin" -> Some(<<11, 12, 13, 14, 15, 16>>)
      [] name = "empty.bin" -> Some(<<>>)
      [] name = "tex.PNG" -> Some(<<137, 80, 78, 71>>)
      [] OTHER -> None

\* the result of a reader method: the exception or the value, and the cache after it
Ret(exc, val, cache, dec) == [exc |-> exc, val |-> val, cache |-> cache, dec |-> dec]

\* uri_bytes, after `if not data` found nothing usable: decode or read, then store
UriResolve(cache, dec, path_set, uri) ==
    LET info == UriInfo(uri)
        got == IF info.data THEN B64Decode(info.payload) ELSE FileBytes(info.file)
    IN IF info.data /\ ~info.match THEN Ret("RuntimeError", <<>>, cache, dec)
       ELSE IF ~info.data /\ ~path_set THEN Ret("NotImplementedError", <<>>, cache, dec)
       ELSE IF got = None
            THEN Ret(IF info.data THEN "binascii.Error" ELSE "FileNotFoundError",
                     <<>>, cache, dec)
       ELSE Ret("None", got[1], [cache EXCEPT ![uri] = got],
                [dec EXCEPT ![uri] = @ + 1])

\* the test `if not data` of uri_bytes on data = self.uri_cache.get(uri)
CacheMiss(cached) == ~Truthy(cached)

\* GltfBufferReader.uri_bytes(uri)
UriBytes(cache, dec, path_set, uri) ==
    IF CacheMiss(cache[uri])
    THEN UriResolve(cache, dec, path_set, uri)
    ELSE Ret("None", cache[uri][1], cache, dec)

\* GltfBufferReader._buffer_bytes(buffer_index)
BufferBytes(doc, blob, cache, dec, path_set, buffer_index) ==
    IF Truthy(blob) /\ buffer_index = 0 THEN Ret("None", blob[1], cache, dec)
    ELSE IF ~PyIndexOk(doc.buffers, buffer_index) THEN Ret("IndexError", <<>>, cache, dec)
    ELSE LET gltf_buffer == PyAt(doc.buffers, buffer_index)
         IN IF gltf_buffer.uri = None THEN Ret("KeyError", <<>>, cache, dec)
            ELSE UriBytes(cache, dec, path_set, gltf_buffer.uri[1])

\* x.get('byteOffset', 0)
GetOr(opt, default) == IF opt = None THEN default ELSE opt[1]

\* buffer_view_bytes, given what _buffer_bytes returned: the slice of the buffer
ViewOfBuffer(gltf_buffer_view, b) ==
    IF b.exc # "None" THEN b
    ELSE Ret("None",
             PySlice(b.val, GetOr(gltf_buffer_view.byteOffset, 0),
                     GetOr(gltf_buffer_view.byteOffset, 0) + gltf_buffer_view.byteLength),
             b.cache, b.dec)

\* GltfBufferReader.buffer_view_bytes(buffer_view_index)
BufferViewBytes(doc, blob, cache, dec, path_set, buffer_view_index) ==
    IF ~PyIndexOk(doc.bufferViews, buffer_view_index)
    THEN Ret("IndexError", <<>>, cache, dec)
    ELSE ViewOfBuffer(PyAt(doc.bufferViews, buffer_view_index),
                      BufferBytes(doc, blob, cache, dec, path_set,
                                  PyAt(doc.bufferViews, buffer_view_index).buffer))

(***************************************************************************)
(* types.py: accessor types and GltfAccessorSlice                          *)
(***************************************************************************)

\* COMPONENT_TYPE_TO_ELEMENT_TYPE: ctypes.sizeof of the element type, 0 for KeyError
ComponentSize(componentType) ==
    CASE componentType = 5120 -> 1
      [] componentType = 5121 -> 1
      [] componentType = 5122 -> 2
      [] componentType = 5123 -> 2
      [] componentType = 5125 -> 4
      [] componentType = 5126 -> 4
      [] OTHER -> 0

\* TYPE_TO_ELEMENT_COUNT, 0 for KeyError
ElementCount(type) ==
    CASE type = "SCALAR" -> 1
      [] type = "VEC2" -> 2
      [] type = "VEC3" -> 3
      [] type = "VEC4" -> 4
      [] type = "MAT2" -> 4
      [] type = "MAT3" -> 9
      [] type = "MAT4" -> 16
      [] OTHER -> 0

\* memoryview(b).cast(format): the scalars, each the bytes it is made of
Cast(b, size) == [k \in 1..(Len(b) \div size) |-> SubSeq(b, (k - 1) * size + 1, k * size)]

\* b'\0' * n
Zeros(n) == [k \in 1..n |-> 0]

\* GltfAccessorSlice(scalar_view, element_count)
AccessorSlice(view, size, element_count) ==
    [scalar_view |-> view, itemsize |-> size, element_count |-> element_count]

\* GltfAccessorSlice.get_stride
GetStride(sl) == sl.itemsize * sl.element_count

\* GltfAccessorSlice.get_count
GetCount(sl) == Len(sl.scalar_view) \div sl.element_count

\* GltfAccessorSlice.get_item(i): the exception (none is ever raised) and the view
GetItem(sl, i) ==
    LET begin == i * sl.element_count
    IN [exc |-> "None", view |-> PySlice(sl.scalar_view, begin, begin + sl.element_count)]

NoSlice == AccessorSlice(<<>>, 1, 1)

\* read_accessor, given what buffer_view_bytes returned: the slice of it, cast
SliceOfView(v, offset, len, size, element_count) ==
    IF v.exc # "None" THEN Ret(v.exc, NoSlice, v.cache, v.dec)
    ELSE IF Len(PySlice(v.val, offset, offset + len)) % size # 0
         THEN Ret("TypeError", NoSlice, v.cache, v.dec)
    ELSE Ret("None",
             AccessorSlice(Cast(PySlice(v.val, offset, offset + len), size), size, element_count),
             v.cache, v.dec)

\* read_accessor, given the accessor's JSON object
ReadAccessorOf(doc, blob, cache, dec, path_set, gltf_accessor) ==
    LET offset == GetOr(gltf_accessor.byteOffset, 0)
        count == gltf_accessor.count
        size == ComponentSize(gltf_accessor.componentType)
        element_count == ElementCount(gltf_accessor.type)
        len == size * element_count * count
    IN IF size = 0 \/ element_count = 0 THEN Ret("KeyError", NoSlice, cache, dec)
       ELSE IF gltf_accessor.bufferView = None
       THEN Ret("None", AccessorSlice(Cast(Zeros(len), size), size, element_count),
                cache, dec)
       ELSE SliceOfView(BufferViewBytes(doc, blob, cache, dec, path_set,
                                        gltf_accessor.bufferView[1]),
                        offset, len, size, element_count)

\* GltfBufferReader.read_accessor(accessor_index)
ReadAccessor(doc, blob, cache, dec, path_set, accessor_index) ==
    IF ~PyIndexOk(doc.accessors, accessor_index) THEN Ret("IndexError", NoSlice, cache, dec)
    ELSE ReadAccessorOf(doc, blob, cache, dec, path_set, PyAt(doc.accessors, accessor_index))

\* a document without content
EmptyDoc == [buffers |-> <<>>, bufferViews |-> <<>>, accessors |-> <<>>]

\* GltfBufferReader.__init__(gltf, path, bin)
ReaderStart(doc, blob, path_set) ==
    /\ gltf = doc
    /\ bin = blob
    /\ has_path = path_set
    /\ uri_cache = [u \in URIS |-> None]
    /\ decodes = [u \in URIS |-> 0]
    /\ calls = 0
    /\ uri_ret = [uri |-> "", exc |-> "None", val |-> <<>>]
    /\ slice = [accessor |-> 0, exc |-> "none", val |-> NoSlice]
    /\ item = [i |-> 0, exc |-> "none", view |-> <<>>]

(***************************************************************************)
(* parser.py: GltfData, the element parsers                                *)
(*                                                                         *)
(* A JSON object is a record of its keys, an optional key being None when  *)
(* the object does not have it. Objects of the immutable NamedTuple types  *)
(* are records held by value; the mutable GltfNode objects and the         *)
(* GltfSkin objects (whose identity is observed) live in self.nodes and    *)
(* self.skins and are referred to by their position there. The vectors,    *)
(* matrices, extensions and extras a parser only copies are left out.      *)
(***************************************************************************)

\* the position (from 0) of the object s[k] in the list s
PyPos(s, k) == IF k >= 0 THEN k ELSE Len(s) + k

\* f'{i}' where a name is missing
NameOr(name, i) == IF name = None THEN ToString(i) ELSE name[1]

\* MimeType(value): whether the value is one of the enum's
KnownMime(mime) == mime \in {"image/jpeg", "image/png", "image/ktx2"}

\* MimeType.from_name(name): the mime of the suffix, "" for GltfError
MimeFromSuffix(suffix) ==
    CASE suffix = ".png" -> "image/png"
      [] suffix = ".jpg" -> "image/jpeg"
      [] suffix = ".ktx2" -> "image/ktx2"
      [] OTHER -> ""

NoValue == [index |-> -1]

\* _parse_image, the bufferView branch, given what buffer_view_bytes returned
ImageOfView(i, gltf_image, b) ==
    IF b.exc # "None" THEN Ret(b.exc, NoValue, b.cache, b.dec)
    ELSE IF ~KnownMime(gltf_image.mimeType[1]) THEN Ret("ValueError", NoValue, b.cache, b.dec)
    ELSE Ret("None",
             [index |-> i,
              name |-> IF gltf_image.name = None \/ gltf_image.name = Some("")
                       THEN ToString(i) ELSE gltf_image.name[1],
              data |-> b.val, mime |-> gltf_image.mimeType[1]],
             b.cache, b.dec)

\* _parse_image, the uri branch, given what uri_bytes returned and the mime
ImageOfUri(i, uri, is_data, mime, b) ==
    IF b.exc # "None" THEN Ret(b.exc, NoValue, b.cache, b.dec)
    ELSE IF is_data /\ ~KnownMime(mime) THEN Ret("ValueError", NoValue, b.cache, b.dec)
    ELSE IF ~is_data /\ mime = "" THEN Ret("GltfError", NoValue, b.cache, b.dec)
    ELSE Ret("None", [index |-> i, name |-> uri, data |-> b.val, mime |-> mime],
             b.cache, b.dec)

\* GltfData._parse_image(i, gltf_image), the cache threaded through
ParseImage(i, gltf_image, cache, dec) ==
    IF gltf_image.bufferView # None /\ gltf_image.mimeType # None
    THEN ImageOfView(i, gltf_image,
                     BufferViewBytes(gltf, bin, cache, dec, has_path, gltf_image.bufferView[1]))
    ELSE IF gltf_image.uri # None
    THEN LET uri == gltf_image.uri[1]
             info == UriInfo(uri)
         IN IF info.data /\ ~info.match THEN Ret("RuntimeError", NoValue, cache, dec)
            ELSE ImageOfUri(i, uri, info.data,
                            IF info.data THEN info.mime ELSE MimeFromSuffix(info.suffix),
                            UriBytes(cache, dec, has_path, uri))
    ELSE Ret("GltfError", NoValue, cache, dec)

\* GltfData._parse_texture(i, gltf_texture): the exception and the GltfTexture
ParseTexture(i, gltf_texture) ==
    LET src == IF gltf_texture.source # None THEN gltf_texture.source
               ELSE gltf_texture.basisu
    IN IF src = None THEN [exc |-> "Exception", val |-> NoValue]
       ELSE IF ~PyIndexOk(images, src[1]) THEN [exc |-> "IndexError", val |-> NoValue]
       ELSE [exc |-> "None",
             val |-> [index |-> i, name |-> NameOr(gltf_texture.name, i),
                      image |-> PyAt(images, src[1])]]

\* self.textures[texture_index] of a material's texture reference, None without one
TextureOf(ref) == IF ref = None THEN None ELSE Some(PyAt(textures, ref[1]))

\* GltfData._parse_material(i, gltf_material): the exception and the GltfMaterial;
\* every failure of the documents' materials is the IndexError of a texture index
ParseMaterial(i, gltf_material) ==
    LET refs == <<gltf_material.baseColorTexture, gltf_material.metallicRoughnessTexture,
                  gltf_material.emissiveTexture, gltf_material.normalTexture,
                  gltf_material.occlusionTexture>>
    IN IF \E k \in 1..5 : refs[k] # None /\ ~PyIndexOk(textures, refs[k][1])
       THEN [exc |-> "IndexError", val |-> NoValue]
       ELSE [exc |-> "None",
             val |-> [index |-> i, name |-> NameOr(gltf_material.name, i),
                      base_color_texture |-> TextureOf(refs[1]),
                      base_color_factor |-> <<1, 1, 1, 1>>,
                      metallic_roughness_texture |-> TextureOf(refs[2]),
                      metallic_factor |-> 0,
                      roughness_factor |-> 0,
                      emissive_texture |-> TextureOf(refs[3]),
                      emissive_factor |-> <<0, 0, 0>>,
                      normal_texture |-> TextureOf(refs[4]),
                      occlusion_texture |-> TextureOf(refs[5]),
                      alpha_mode |-> "OPAQUE",
                      alpha_cutoff |-> "0.5",
                      double_sided |-> FALSE]]

\* GltfMaterial.default() (types.py)
DefaultMaterial ==
    [index |-> -1, name |-> "__default__",
     base_color_texture |-> None,
     base_color_factor |-> <<1, 1, 1, 1>>,
     metallic_roughness_texture |-> None,
     metallic_factor |-> 0,
     roughness_factor |-> 1,
     emissive_texture |-> None,
     emissive_factor |-> <<0, 0, 0>>,
     normal_texture |-> None,
     occlusion_texture |-> None,
     alpha_mode |-> "OPAQUE",
     alpha_cutoff |-> "0.5",
     double_sided |-> FALSE]

\* the attribute keys _parse_mesh knows
AttrKeys == {"POSITION", "NORMAL", "TEXCOORD_0", "TEXCOORD_1", "TEXCOORD_2", "TANGENT",
             "COLOR_0", "JOINTS_0", "WEIGHTS_0"}

\* _parse_mesh: the views read so far, after read_accessor returned r for key k
AttributeRead(k, st, r) ==
    [exc |-> r.exc,
     val |-> IF r.exc = "None" THEN [st.val EXCEPT ![k] = Some(r.val)] ELSE st.val,
     cache |-> r.cache, dec |-> r.dec]

\* _parse_mesh: the loop over gltf_attributes.items(), from the state st of the
\* views read so far; attrs is the sequence of <<key, accessor index>> left
RECURSIVE ParseAttributes(_, _)
ParseAttributes(attrs, st) ==
    IF attrs = <<>> \/ st.exc # "None" THEN st
    ELSE IF Head(attrs)[1] \notin AttrKeys THEN [st EXCEPT !.exc = "NotImplementedError"]
    ELSE ParseAttributes(Tail(attrs),
            AttributeRead(Head(attrs)[1], st,
                ReadAccessor(gltf, bin, st.cache, st.dec, has_path, Head(attrs)[2])))

\* a _parse_mesh that gives every primitive with a `material` key the first material
PrimMaterialFirst(material_ref) ==
    IF material_ref = None THEN DefaultMaterial ELSE PyAt(materials, 0)

\* _parse_mesh: the material of a primitive, given its `material` key
PrimMaterial(material_ref) ==
    IF material_ref = None THEN DefaultMaterial ELSE PyAt(materials, material_ref[1])

\* _parse_mesh: the primitive, given the attribute views a and the indices ind
PrimOf(gltf_prim, a, ind) ==
    IF ind.exc # "None" THEN Ret(ind.exc, NoValue, ind.cache, ind.dec)
    ELSE IF gltf_prim.material # None /\ ~PyIndexOk(materials, gltf_prim.material[1])
         THEN Ret("IndexError", NoValue, ind.cache, ind.dec)
    ELSE Ret("None",
             [material |-> PrimMaterial(gltf_prim.material),
              position |-> a.val["POSITION"],
              normal |-> a.val["NORMAL"],
              uv0 |-> a.val["TEXCOORD_0"],
              uv1 |-> a.val["TEXCOORD_1"],
              uv2 |-> a.val["TEXCOORD_2"],
              tangent |-> a.val["TANGENT"],
              color |-> a.val["COLOR_0"],
              joints |-> a.val["JOINTS_0"],
              weights |-> a.val["WEIGHTS_0"],
              indices |-> IF gltf_prim.indices = None THEN None ELSE Some(ind.val)],
             ind.cache, ind.dec)

\* a _parse_mesh without the test `if not positions`
PrimOfAttributesUnchecked(gltf_prim, a) ==
    IF a.exc # "None" THEN Ret(a.exc, NoValue, a.cache, a.dec)
    ELSE PrimOf(gltf_prim, a,
                IF gltf_prim.indices = None THEN Ret("None", NoSlice, a.cache, a.dec)
                ELSE ReadAccessor(gltf, bin, a.cache, a.dec, has_path, gltf_prim.indices[1]))

\* _parse_mesh: after the attributes: POSITION is required, then the indices
PrimOfAttributes(gltf_prim, a) ==
    IF a.exc # "None" THEN Ret(a.exc, NoValue, a.cache, a.dec)
    ELSE IF a.val["POSITION"] = None THEN Ret("GltfError", NoValue, a.cache, a.dec)
    ELSE PrimOf(gltf_prim, a,
                IF gltf_prim.indices = None THEN Ret("None", NoSlice, a.cache, a.dec)
                ELSE ReadAccessor(gltf, bin, a.cache, a.dec, has_path, gltf_prim.indices[1]))

\* _parse_mesh: one iteration of the loop over gltf_mesh['primitives']
ParsePrimitive(gltf_prim, cache, dec) ==
    PrimOfAttributes(gltf_prim,
                     ParseAttributes(gltf_prim.attributes,
                                     Ret("None", [k \in AttrKeys |-> None], cache, dec)))

\* a list being built, after the parser of its next element returned r
Appended(st, r) ==
    Ret(r.exc, IF r.exc = "None" THEN Append(st.val, r.val) ELSE st.val, r.cache, r.dec)

\* _parse_mesh: the loop over the primitives, from the state st of those built
RECURSIVE ParsePrimitives(_, _)
ParsePrimitives(prims, st) ==
    IF prims = <<>> \/ st.exc # "None" THEN st
    ELSE ParsePrimitives(Tail(prims),
                         Appended(st, ParsePrimitive(Head(prims), st.cache, st.dec)))

\* _parse_mesh: the GltfMesh of the primitives r
MeshOf(i, gltf_mesh, r) ==
    IF r.exc # "None" THEN Ret(r.exc, NoValue, r.cache, r.dec)
    ELSE Ret("None", [index |-> i, name |-> NameOr(gltf_mesh.name, i), primitives |-> r.val],
             r.cache, r.dec)

\* GltfData._parse_mesh(i, gltf_mesh)
ParseMesh(i, gltf_mesh, cache, dec) ==
    MeshOf(i, gltf_mesh, ParsePrimitives(gltf_mesh.primitives, Ret("None", <<>>, cache, dec)))

\* GltfData._parse_node(i, gltf_node): children and skin are left for the second pass
ParseNode(i, gltf_node) ==
    IF gltf_node.mesh # None /\ ~PyIndexOk(meshes, gltf_node.mesh[1])
    THEN [exc |-> "IndexError", val |-> NoValue]
    ELSE [exc |-> "None",
          val |-> [index |-> i, name |-> NameOr(gltf_node.name, i), children |-> <<>>,
                   mesh |-> IF gltf_node.mesh = None THEN None
                            ELSE Some(PyAt(meshes, gltf_node.mesh[1])),
                   skin |-> None]]

\* [self.nodes[k] for k in ks]: the references, when every index is one of self.nodes
NodeRefs(ks) == [j \in 1..Len(ks) |-> PyPos(nodes, ks[j])]

\* whether [self.nodes[k] for k in ks] raises IndexError
BadNodeIndex(ks) == \E j \in 1..Len(ks) : ~PyIndexOk(nodes, ks[j])

\* _parse_skin: the GltfSkin, given the inverse bind matrices read as m
SkinOf(i, gltf_skin, m) ==
    IF m.exc # "None" THEN Ret(m.exc, NoValue, m.cache, m.dec)
    ELSE IF gltf_skin.skeleton # None /\ ~PyIndexOk(nodes, gltf_skin.skeleton[1])
         THEN Ret("IndexError", NoValue, m.cache, m.dec)
    ELSE IF BadNodeIndex(gltf_skin.joints) THEN Ret("IndexError", NoValue, m.cache, m.dec)
    ELSE Ret("None",
             [index |-> i, name |-> NameOr(gltf_skin.name, i),
              inverse_bind_matrices |-> IF gltf_skin.inverseBindMatrices = None
                                        THEN None ELSE Some(m.val),
              skeleton |-> IF gltf_skin.skeleton = None THEN None
                           ELSE Some(PyPos(nodes, gltf_skin.skeleton[1])),
              joints |-> NodeRefs(gltf_skin.joints)],
             m.cache, m.dec)

\* GltfData._parse_skin(i, gltf_skin)
ParseSkin(i, gltf_skin, cache, dec) ==
    SkinOf(i, gltf_skin,
           IF gltf_skin.inverseBindMatrices = None THEN Ret("None", NoSlice, cache, dec)
           ELSE ReadAccessor(gltf, bin, cache, dec, has_path, gltf_skin.inverseBindMatrices[1]))

\* the children the second pass appends to a node before it fails or ends: the
\* references of the longest prefix of valid indices
RECURSIVE ChildrenAppended(_)
ChildrenAppended(ks) ==
    IF ks = <<>> \/ ~PyIndexOk(nodes, Head(ks)) THEN <<>>
    ELSE <<PyPos(nodes, Head(ks))>> \o ChildrenAppended(Tail(ks))

\* the animation paths and interpolations of the enums (types.py)
TargetPaths == {"translation", "rotation", "scale", "weights"}
Interpolations == {"LINEAR", "STEP", "CUBICSPLINE"}

\* GltfData._parse_animation_channel: the exception of one channel
ChannelExc(ch) ==
    IF ch.sampler = None \/ ch.node = None \/ ch.path = None THEN "GltfError"
    ELSE IF ch.path[1] \notin TargetPaths THEN "ValueError"
    ELSE IF ~PyIndexOk(nodes, ch.node[1]) THEN "IndexError"
    ELSE "None"

\* GltfData._parse_animation_channel: the GltfAnimationChannel
Channel(ch) ==
    [sampler |-> ch.sampler[1],
     target |-> [path |-> ch.path[1], node_index |-> PyPos(nodes, ch.node[1])]]

\* _parse_animation_sampler: the sampler, given the two views read
SamplerOf(sm, a, b) ==
    IF b.exc # "None" THEN Ret(b.exc, NoValue, b.cache, b.dec)
    ELSE IF GetOr(sm.interpolation, "LINEAR") \notin Interpolations
         THEN Ret("ValueError", NoValue, b.cache, b.dec)
    ELSE Ret("None", [input |-> a.val, output |-> b.val,
                      interpolation |-> GetOr(sm.interpolation, "LINEAR")],
             b.cache, b.dec)

\* _parse_animation_sampler: after the input was read as a, the output is read
SamplerOfInput(sm, a) ==
    IF a.exc # "None" THEN Ret(a.exc, NoValue, a.cache, a.dec)
    ELSE SamplerOf(sm, a, ReadAccessor(gltf, bin, a.cache, a.dec, has_path, sm.output[1]))

\* GltfData._parse_animation_sampler
ParseSampler(sm, cache, dec) ==
    IF sm.input = None \/ sm.output = None THEN Ret("GltfError", NoValue, cache, dec)
    ELSE SamplerOfInput(sm, ReadAccessor(gltf, bin, cache, dec, has_path, sm.input[1]))

\* _parse_animation: the list comprehension over gltf_animation['samplers']
RECURSIVE ParseSamplers(_, _)
ParseSamplers(sms, st) ==
    IF sms = <<>> \/ st.exc # "None" THEN st
    ELSE ParseSamplers(Tail(sms), Appended(st, ParseSampler(Head(sms), st.cache, st.dec)))

\* the exception of the first channel that fails, "None" when none does
RECURSIVE ChannelsExc(_)
ChannelsExc(chs) ==
    IF chs = <<>> THEN "None"
    ELSE IF ChannelExc(Head(chs)) # "None" THEN ChannelExc(Head(chs))
    ELSE ChannelsExc(Tail(chs))

\* _parse_animation: the GltfAnimation, given the samplers read as sm
AnimationOf(i, gltf_animation, sm) ==
    IF sm.exc # "None" THEN Ret(sm.exc, NoValue, sm.cache, sm.dec)
    ELSE Ret("None",
             [index |-> i, name |-> NameOr(gltf_animation.name, i),
              channels |-> [j \in 1..Len(gltf_animation.channels) |->
                              Channel(gltf_animation.channels[j])],
              samplers |-> sm.val],
             sm.cache, sm.dec)

\* GltfData._parse_animation(i, gltf_animation)
ParseAnimation(i, gltf_animation, cache, dec) ==
    IF ChannelsExc(gltf_animation.channels) # "None"
    THEN Ret(ChannelsExc(gltf_animation.channels), NoValue, cache, dec)
    ELSE AnimationOf(i, gltf_animation,
                     ParseSamplers(gltf_animation.samplers, Ret("None", <<>>, cache, dec)))

\* GltfData.__init__: the lists are empty
DataStart ==
    /\ pass = "images"
    /\ idx = 0
    /\ images = <<>>
    /\ textures = <<>>
    /\ materials = <<>>
    /\ meshes = <<>>
    /\ nodes = <<>>
    /\ skins = <<>>
    /\ scene = <<>>
    /\ animations = <<>>
    /\ error = "None"

\* no GltfData is modelled
DataIdle ==
    /\ pass = "idle"
    /\ idx = 0
    /\ images = <<>>
    /\ textures = <<>>
    /\ materials = <<>>
    /\ meshes = <<>>
    /\ nodes = <<>>
    /\ skins = <<>>
    /\ scene = <<>>
    /\ animations = <<>>
    /\ error = "None"

(***************************************************************************)
(* glb.py                                                                  *)
(***************************************************************************)

GLB_MAGIC == 1179937895     \* 0x46546C67
GLB_VERSION == 2
CHUNK_JSON == 1313821514    \* 0x4E4F534A
CHUNK_BIN == 5130562        \* 0x004E4942

\* struct.unpack('i', b): little-endian signed 32 bit
UnpackInt(b) ==
    b[1] + 256 * b[2] + 65536 * b[3]
    + 16777216 * (IF b[4] >= 128 THEN b[4] - 256 ELSE b[4])

\* BytesReader.read(size) at position p of d
Read(d, p, size) ==
    IF p + size > Len(d)
    THEN [exc |-> "IOError", bytes |-> <<>>, pos |-> p]
    ELSE [exc |-> "None", bytes |-> PySlice(d, p, p + size), pos |-> p + size]

\* BytesReader.read_int() at position p of d
ReadInt(d, p) ==
    LET r == Read(d, p, 4)
    IN IF r.exc # "None" THEN [exc |-> r.exc, val |-> 0, pos |-> r.pos]
       ELSE IF Len(r.bytes) # 4 THEN [exc |-> "struct.error", val |-> 0, pos |-> r.pos]
       ELSE [exc |-> "None", val |-> UnpackInt(r.bytes), pos |-> r.pos]

\* little-endian bytes of a signed 32 bit integer (struct.pack('i', w))
PackInt(w) ==
    LET u == IF w < 0 THEN w + 2147483647 + 1 ELSE w    \* w + 2^31 for w < 0
        top == (u \div 16777216) + (IF w < 0 THEN 128 ELSE 0)
    IN <<u % 256, (u \div 256) % 256, (u \div 65536) % 256, top>>

\* the chunk loop is followed for at most MaxIter iterations
MaxIter == 4

\* parse_glb failed: the exception leaves parse_glb
GlbRaise(exc, p) ==
    /\ pc' = "raised"
    /\ glb_exc' = exc
    /\ pos' = p
    /\ UNCHANGED <<data, length, json_chunk, bin_chunk, chunks, outcome, readerVars, dataVars>>

\* parse_glb: r = BytesReader(data); if r.read_int() != 0x46546C67: raise GlbError
GlbMagic ==
    /\ pc = "magic"
    /\ LET m == ReadInt(data, pos)
       IN IF m.exc # "None" THEN GlbRaise(m.exc, m.pos)
          ELSE IF m.val # GLB_MAGIC THEN GlbRaise("GlbError", m.pos)
          ELSE /\ pc' = "version"
               /\ pos' = m.pos
               /\ UNCHANGED <<data, length, json_chunk, bin_chunk, chunks, glb_exc, outcome, readerVars, dataVars>>

\* parse_glb: version = r.read_int(); if version != 2: raise GlbError
GlbVersion ==
    /\ pc = "version"
    /\ LET v == ReadInt(data, pos)
       IN IF v.exc # "None" THEN GlbRaise(v.exc, v.pos)
          ELSE IF v.val # GLB_VERSION THEN GlbRaise("GlbError", v.pos)
          ELSE /\ pc' = "length"
               /\ pos' = v.pos
               /\ UNCHANGED <<data, length, json_chunk, bin_chunk, chunks, glb_exc, outcome, readerVars, dataVars>>

\* parse_glb: length = r.read_int(); json_chunk = None; bin_chunk = None
GlbLength ==
    /\ pc = "length"
    /\ LET l == ReadInt(data, pos)
       IN IF l.exc # "None" THEN GlbRaise(l.exc, l.pos)
          ELSE /\ pc' = "loop"
               /\ pos' = l.pos
               /\ length' = l.val
               /\ json_chunk' = None
               /\ bin_chunk' = None
               /\ UNCHANGED <<data, chunks, glb_exc, outcome, readerVars, dataVars>>

\* parse_glb: one iteration of `while r.pos < length`
GlbChunk ==
    /\ pc = "loop"
    /\ pos < length
    /\ Len(chunks) < MaxIter
    /\ LET chunk_length == ReadInt(data, pos)
           chunk_type == ReadInt(data, chunk_length.pos)
           chunk_data == Read(data, chunk_type.pos, chunk_length.val)
       IN IF chunk_length.exc # "None" THEN GlbRaise(chunk_length.exc, chunk_length.pos)
          ELSE IF chunk_type.exc # "None" THEN GlbRaise(chunk_type.exc, chunk_type.pos)
          ELSE IF chunk_data.exc # "None" THEN GlbRaise(chunk_data.exc, chunk_data.pos)
          ELSE IF chunk_type.val \notin {CHUNK_JSON, CHUNK_BIN}
               THEN GlbRaise("NotImplementedError", chunk_data.pos)
          ELSE /\ pos' = chunk_data.pos
               /\ json_chunk' = IF chunk_type.val = CHUNK_JSON
                                THEN Some(chunk_data.bytes) ELSE json_chunk
               /\ bin_chunk' = IF chunk_type.val = CHUNK_BIN
                               THEN Some(chunk_data.bytes) ELSE bin_chunk
               /\ chunks' = Append(chunks, [type |-> chunk_type.val,
                                            payload |-> chunk_data.bytes,
                                            declared |-> chunk_length.val,
                                            at |-> pos])
               /\ UNCHANGED <<data, pc, length, glb_exc, outcome, readerVars, dataVars>>

\* parse_glb: the loop ends, return json_chunk, bin_chunk
GlbReturn ==
    /\ pc = "loop"
    /\ ~(pos < length)
    /\ pc' = "returned"
    /\ UNCHANGED <<data, pos, length, json_chunk, bin_chunk, chunks, glb_exc, outcome, readerVars, dataVars>>

(***************************************************************************)
(* __init__.py                                                             *)
(***************************************************************************)

\* the call parse_gltf(json, path=path, bin=bin) that parse_path returns
GltfCall(json, blob) == [kind |-> "parse_gltf", json |-> json, bin |-> blob, exc |-> "None"]

\* an exception leaving parse_path
Propagate(exc) == [kind |-> "raise", json |-> <<>>, bin |-> None, exc |-> exc]

\* parse_path after parse_glb returned: `if json and bin`, else the fallback
ParsePathReturned ==
    /\ pc = "returned"
    /\ outcome' = IF Truthy(json_chunk) /\ Truthy(bin_chunk)
                  THEN GltfCall(json_chunk[1], bin_chunk)
                  ELSE GltfCall(data, None)
    /\ pc' = "done"
    /\ UNCHANGED <<data, pos, length, json_chunk, bin_chunk, chunks, glb_exc, readerVars, dataVars>>

\* parse_path when parse_glb raised: `except GlbError: pass`, then the fallback
ParsePathExcept ==
    /\ pc = "raised"
    /\ outcome' = IF glb_exc = "GlbError"
                  THEN GltfCall(data, None)
                  ELSE Propagate(glb_exc)
    /\ pc' = "done"
    /\ UNCHANGED <<data, pos, length, json_chunk, bin_chunk, chunks, glb_exc, readerVars, dataVars>>

(***************************************************************************)
(* The files parse_path is given                                           *)
(***************************************************************************)

MaxChunks == 2

\* b'{}'
JsonText == <<123, 125>>
\* two bytes of a binary buffer
BinBytes == <<7, 9>>

RECURSIVE SeqsUpTo(_, _)
SeqsUpTo(S, n) ==
    IF n = 0 THEN {<<>>}
    ELSE LET shorter == SeqsUpTo(S, n - 1)
         IN shorter \cup {Append(s, x) : s \in {t \in shorter : Len(t) = n - 1}, x \in S}

\* a chunk as written to a file: the declared length may differ from the payload's;
\* 1 is a chunk type tag that is neither JSON nor BIN
ChunkSet ==
    {[type |-> t, declared |-> Len(p), payload |-> p] :
        t \in {CHUNK_JSON, CHUNK_BIN, 1}, p \in {<<>>, JsonText, BinBytes}}
    \cup {[type |-> CHUNK_JSON, declared |-> Len(JsonText) + 1, payload |-> JsonText],
          [type |-> CHUNK_JSON, declared |-> -8, payload |-> <<>>]}

RECURSIVE ChunkBytes(_)
ChunkBytes(cs) ==
    IF cs = <<>> THEN <<>>
    ELSE PackInt(Head(cs).declared) \o PackInt(Head(cs).type) \o Head(cs).payload
         \o ChunkBytes(Tail(cs))

\* a container file: header, chunks, the last `cut` bytes missing; GlbInputs also
\* holds files of a wrong magic (0), of version 1, and the plain text b'{}'
GlbFile(magic, version, extra, cs, cut) ==
    LET body == ChunkBytes(cs)
        all == PackInt(magic) \o PackInt(version) \o PackInt(12 + Len(body) + extra) \o body
    IN SubSeq(all, 1, Len(all) - cut)

GlbInputs ==
    {GlbFile(h[1], h[2], extra, cs, cut) :
        h \in {<<GLB_MAGIC, GLB_VERSION>>, <<GLB_MAGIC, 1>>, <<0, GLB_VERSION>>},
        extra \in {0, 4},
        cs \in SeqsUpTo(ChunkSet, MaxChunks),
        cut \in {0, 1}}
    \cup {JsonText}

\* parse_path before it ran
GlbStart(d) ==
    /\ data = d
    /\ pc = "magic"
    /\ pos = 0
    /\ length = 0
    /\ json_chunk = None
    /\ bin_chunk = None
    /\ chunks = <<>>
    /\ glb_exc = "None"
    /\ outcome = [kind |-> "none", json |-> <<>>, bin |-> None, exc |-> "None"]

\* no parse_path call is modelled
GlbIdle ==
    /\ data = <<>>
    /\ pc = "idle"
    /\ pos = 0
    /\ length = 0
    /\ json_chunk = None
    /\ bin_chunk = None
    /\ chunks = <<>>
    /\ glb_exc = "None"
    /\ outcome = [kind |-> "none", json |-> <<>>, bin |-> None, exc |-> "None"]

InitGlb ==
    /\ \E d \in GlbInputs : GlbStart(d)
    /\ ReaderStart(EmptyDoc, None, FALSE)
    /\ DataIdle

NextGlb ==
    \/ GlbMagic
    \/ GlbVersion
    \/ GlbLength
    \/ GlbChunk
    \/ GlbReturn
    \/ ParsePathReturned
    \/ ParsePathExcept

SpecGlb == InitGlb /\ [][NextGlb]_vars

(***************************************************************************)
(* Claims about parse_path and parse_glb (checked under SpecGlb)           *)
(***************************************************************************)

\* the chunk type tags of the chunks parse_glb consumed, in order
ChunkTypes == [k \in 1..Len(chunks) |-> chunks[k].type]

\* C1: whenever parse_glb fails, for whatever structural reason, parse_path
\* raises nothing of it and hands the whole input to parse_gltf with no blob.
C1_GlbFailureSwallowed ==
    (pc = "done" /\ glb_exc # "None")
        => outcome = GltfCall(data, None)

\* C6: for a well-formed container (header, one non-empty JSON chunk, then no
\* BIN chunk or an empty one, all of the input consumed), parse_path parses the
\* JSON chunk's payload with no binary blob, not the whole container.
C6_NoBinParsesJsonChunk ==
    (/\ pc = "done"
     /\ glb_exc = "None"
     /\ pos = Len(data)
     /\ length = Len(data)
     /\ ChunkTypes \in {<<CHUNK_JSON>>, <<CHUNK_JSON, CHUNK_BIN>>}
     /\ chunks[1].payload # <<>>
     /\ \A k \in 1..Len(chunks) : chunks[k].declared = Len(chunks[k].payload)
     /\ (Len(chunks) = 2 => chunks[2].payload = <<>>))
        => /\ outcome.kind = "parse_gltf"
           /\ outcome.json = chunks[1].payload
           /\ outcome.bin \in {None, Some(<<>>)}

\* C7: whenever parse_glb returns, it consumed one JSON chunk, then at most one
\* BIN chunk; json is that first chunk's payload (never None) and the blob is
\* the BIN chunk's payload, or None.
C7_ChunkSequence ==
    pc = "returned"
        => /\ ChunkTypes \in {<<CHUNK_JSON>>, <<CHUNK_JSON, CHUNK_BIN>>}
           /\ json_chunk = Some(chunks[1].payload)
           /\ bin_chunk = IF Len(chunks) = 2 THEN Some(chunks[2].payload) ELSE None

\* C15, as the specification states it: every iteration of parse_glb's chunk
\* loop moves the read position forward, by 8 plus the chunk's declared length,
\* which is not negative. The code does not have this property: read_int decodes
\* the length field as a signed integer, read(size) with a negative size passes
\* the bounds test and moves the position backwards, and a chunk of declared
\* length -8 is read again and again.
C15_ChunkAdvances ==
    [][Len(chunks') = Len(chunks) + 1 =>
          /\ chunks'[Len(chunks')].declared >= 0
          /\ pos' = pos + 8 + chunks'[Len(chunks')].declared
          /\ pos' > pos]_vars

(***************************************************************************)
(* A session of uri_bytes calls on one GltfBufferReader                    *)
(***************************************************************************)

\* at most MaxCalls calls are made on one reader
MaxCalls == 3

\* a call self.uri_bytes(uri)
CallUriBytes(uri) ==
    /\ calls < MaxCalls
    /\ LET r == UriBytes(uri_cache, decodes, has_path, uri)
       IN /\ uri_ret' = [uri |-> uri, exc |-> r.exc, val |-> r.val]
          /\ uri_cache' = r.cache
          /\ decodes' = r.dec
    /\ calls' = calls + 1
    /\ UNCHANGED <<gltf, bin, has_path, slice, item, glbVars, dataVars>>

InitUri ==
    /\ GlbIdle
    /\ DataIdle
    /\ \E p \in BOOLEAN : ReaderStart(EmptyDoc, None, p)

NextUri == \E uri \in URIS : CallUriBytes(uri)

SpecUri == InitUri /\ [][NextUri]_vars

(***************************************************************************)
(* read_accessor and get_item on one GltfBufferReader                      *)
(***************************************************************************)

MaxCount == 3

\* the embedded blob of a container
BlobBytes == <<21, 22, 23, 24, 25, 26>>

\* where the bytes of buffer 0 come from: <<self.bin, buffers[0].uri, self.path is set>>
Sources ==
    {<<Some(BlobBytes), None, FALSE>>,
     <<None, Some("data:application/octet-stream;base64,AQIDBA=="), FALSE>>,
     <<None, Some("buf%2Ebin"), TRUE>>,
     <<None, None, FALSE>>}

\* documents of one buffer, one bufferView and one accessor
AccessorDocs ==
    {[buffers |-> <<[uri |-> src[2]]>>,
      bufferViews |-> <<[buffer |-> b, byteOffset |-> vo, byteLength |-> vl]>>,
      accessors |-> <<[bufferView |-> bv, byteOffset |-> ao, count |-> c,
                       componentType |-> ct, type |-> ty]>>,
      bin |-> src[1], has_path |-> src[3]] :
        src \in Sources, b \in {0, 1}, vo \in {None, Some(1)}, vl \in {0, 2, 4, 6},
        bv \in {None, Some(0), Some(1)}, ao \in {None, Some(1)}, c \in 0..MaxCount,
        ct \in {5121, 5123}, ty \in {"SCALAR", "VEC2"}}
    \cup {[buffers |-> <<[uri |-> None]>>,
           bufferViews |-> <<[buffer |-> 0, byteOffset |-> None, byteLength |-> 4]>>,
           accessors |-> <<[bufferView |-> Some(0), byteOffset |-> None, count |-> 1,
                            componentType |-> t[1], type |-> t[2]]>>,
           bin |-> Some(BlobBytes), has_path |-> FALSE] :
             t \in {<<5124, "SCALAR">>, <<5126, "VEC5">>, <<5126, "SCALAR">>}}

\* a call self.read_accessor(accessor_index)
CallReadAccessor(accessor_index) ==
    /\ calls < MaxCalls
    /\ LET r == ReadAccessor(gltf, bin, uri_cache, decodes, has_path, accessor_index)
       IN /\ slice' = [accessor |-> accessor_index, exc |-> r.exc, val |-> r.val]
          /\ uri_cache' = r.cache
          /\ decodes' = r.dec
    /\ calls' = calls + 1
    /\ item' = [i |-> 0, exc |-> "none", view |-> <<>>]
    /\ UNCHANGED <<gltf, bin, has_path, uri_ret, glbVars, dataVars>>

\* a call get_item(i) on the slice read_accessor returned
CallGetItem(i) ==
    /\ slice.exc = "None"
    /\ LET r == GetItem(slice.val, i)
       IN item' = [i |-> i, exc |-> r.exc, view |-> r.view]
    /\ UNCHANGED <<gltf, bin, has_path, uri_cache, decodes, calls, uri_ret, slice, glbVars, dataVars>>

InitAccessor ==
    /\ GlbIdle
    /\ DataIdle
    /\ \E d \in AccessorDocs :
          ReaderStart([buffers |-> d.buffers, bufferViews |-> d.bufferViews,
                       accessors |-> d.accessors], d.bin, d.has_path)

NextAccessor ==
    \/ \E a \in {-1, 0, 1} : CallReadAccessor(a)
    \/ \E i \in (-MaxCount - 1)..(MaxCount + 1) : CallGetItem(i)

SpecAccessor == InitAccessor /\ [][NextAccessor]_vars

(***************************************************************************)
(* parser.py: GltfData.parse, one step per loop iteration                  *)
(***************************************************************************)

\* what a step of parse leaves alone
ParseFrame == UNCHANGED <<gltf, bin, has_path, calls, uri_ret, slice, item, glbVars>>

\* a parse that notes the exception of an element and goes on with the next
RaiseSwallowed(e) == pass' = pass /\ error' = e /\ idx' = idx + 1

\* the statement raises: parse is left
Raise(e) == pass' = "raised" /\ error' = e /\ idx' = idx

\* the loop goes on with the next element
Advance == idx' = idx + 1 /\ UNCHANGED <<pass, error>>

\* a parse that leaves out the pass over the skins
NextPassNoSkins(p) ==
    pass' = (IF p = "skins" THEN "nodes2" ELSE p) /\ idx' = 0 /\ UNCHANGED error

\* the loop is over: the next pass begins
NextPass(p) == pass' = p /\ idx' = 0 /\ UNCHANGED error

\* the reader's cache after a call that returned r
Cached(r) == uri_cache' = r.cache /\ decodes' = r.dec

\* for i, gltf_image in enumerate(self.gltf.get('images', []))
ImagesPass ==
    /\ pass = "images"
    /\ IF idx < Len(gltf.images)
       THEN \E r \in {ParseImage(idx, gltf.images[idx + 1], uri_cache, decodes)} :
               /\ Cached(r)
               /\ IF r.exc # "None" THEN Raise(r.exc) /\ UNCHANGED images
                  ELSE images' = Append(images, r.val) /\ Advance
       ELSE NextPass("textures") /\ UNCHANGED <<images, uri_cache, decodes>>
    /\ UNCHANGED <<textures, materials, meshes, nodes, skins, scene, animations>>
    /\ ParseFrame

\* for i, gltf_texture in enumerate(self.gltf.get('textures', []))
TexturesPass ==
    /\ pass = "textures"
    /\ IF idx < Len(gltf.textures)
       THEN \E r \in {ParseTexture(idx, gltf.textures[idx + 1])} :
               IF r.exc # "None" THEN Raise(r.exc) /\ UNCHANGED textures
               ELSE textures' = Append(textures, r.val) /\ Advance
       ELSE NextPass("materials") /\ UNCHANGED textures
    /\ UNCHANGED <<images, materials, meshes, nodes, skins, scene, animations>>
    /\ UNCHANGED <<uri_cache, decodes>>
    /\ ParseFrame

\* the else branch of `if maetrials`: NotImplementedError('no material') is
\* built and dropped, nothing is raised
NoMaterials == NextPass("meshes")

\* maetrials = self.gltf.get('materials'); if maetrials: for i, gltf_material ...
MaterialsPass ==
    /\ pass = "materials"
    /\ IF gltf.materials # None /\ gltf.materials[1] # <<>>
       THEN IF idx < Len(gltf.materials[1])
            THEN \E r \in {ParseMaterial(idx, gltf.materials[1][idx + 1])} :
                    IF r.exc # "None" THEN Raise(r.exc) /\ UNCHANGED materials
                    ELSE materials' = Append(materials, r.val) /\ Advance
            ELSE NextPass("meshes") /\ UNCHANGED materials
       ELSE NoMaterials /\ UNCHANGED materials
    /\ UNCHANGED <<images, textures, meshes, nodes, skins, scene, animations>>
    /\ UNCHANGED <<uri_cache, decodes>>
    /\ ParseFrame

\* for i, gltf_mesh in enumerate(self.gltf.get('meshes', []))
MeshesPass ==
    /\ pass = "meshes"
    /\ IF idx < Len(gltf.meshes)
       THEN \E r \in {ParseMesh(idx, gltf.meshes[idx + 1], uri_cache, decodes)} :
               /\ Cached(r)
               /\ IF r.exc # "None" THEN Raise(r.exc) /\ UNCHANGED meshes
                  ELSE meshes' = Append(meshes, r.val) /\ Advance
       ELSE NextPass("nodes") /\ UNCHANGED <<meshes, uri_cache, decodes>>
    /\ UNCHANGED <<images, textures, materials, nodes, skins, scene, animations>>
    /\ ParseFrame

\* for i, gltf_node in enumerate(self.gltf.get('nodes', [])): the first pass
NodesPass ==
    /\ pass = "nodes"
    /\ IF idx < Len(gltf.nodes)
       THEN \E r \in {ParseNode(idx, gltf.nodes[idx + 1])} :
               IF r.exc # "None" THEN Raise(r.exc) /\ UNCHANGED nodes
               ELSE nodes' = Append(nodes, r.val) /\ Advance
       ELSE NextPass("skins") /\ UNCHANGED nodes
    /\ UNCHANGED <<images, textures, materials, meshes, skins, scene, animations>>
    /\ UNCHANGED <<uri_cache, decodes>>
    /\ ParseFrame

\* for i, gltf_skin in enumerate(self.gltf.get('skins', []))
SkinsPass ==
    /\ pass = "skins"
    /\ IF idx < Len(gltf.skins)
       THEN \E r \in {ParseSkin(idx, gltf.skins[idx + 1], uri_cache, decodes)} :
               /\ Cached(r)
               /\ IF r.exc # "None" THEN Raise(r.exc) /\ UNCHANGED skins
                  ELSE skins' = Append(skins, r.val) /\ Advance
       ELSE NextPass("nodes2") /\ UNCHANGED <<skins, uri_cache, decodes>>
    /\ UNCHANGED <<images, textures, materials, meshes, nodes, scene, animations>>
    /\ ParseFrame

\* the second pass, node i: the children it gets
Children2(i, gltf_node) ==
    nodes[i + 1].children \o ChildrenAppended(GetOr(gltf_node.children, <<>>))

\* a second pass that leaves the skin as _parse_node set it
Skin2Unset(i, gltf_node) == nodes[i + 1].skin

\* the second pass, node i: the skin it gets
Skin2(i, gltf_node) ==
    IF gltf_node.skin = None THEN nodes[i + 1].skin
    ELSE Some(PyPos(skins, gltf_node.skin[1]))

\* for i, gltf_node in enumerate(self.gltf.get('nodes', [])): the second pass
Nodes2Pass ==
    /\ pass = "nodes2"
    /\ IF idx < Len(gltf.nodes)
       THEN LET gltf_node == gltf.nodes[idx + 1]
            IN IF BadNodeIndex(GetOr(gltf_node.children, <<>>))
               THEN /\ nodes' = [nodes EXCEPT ![idx + 1].children = Children2(idx, gltf_node)]
                    /\ Raise("IndexError")
               ELSE IF gltf_node.skin # None /\ ~PyIndexOk(skins, gltf_node.skin[1])
               THEN /\ nodes' = [nodes EXCEPT ![idx + 1].children = Children2(idx, gltf_node)]
                    /\ Raise("IndexError")
               ELSE /\ nodes' = [nodes EXCEPT ![idx + 1].children = Children2(idx, gltf_node),
                                              ![idx + 1].skin = Skin2(idx, gltf_node)]
                    /\ Advance
       ELSE NextPass("scene") /\ UNCHANGED nodes
    /\ UNCHANGED <<images, textures, materials, meshes, skins, scene, animations>>
    /\ UNCHANGED <<uri_cache, decodes>>
    /\ ParseFrame

\* self.scene += [self.nodes[k] for k in self.gltf['scenes'][self.gltf.get('scene', 0)]['nodes']]
ScenePass ==
    /\ pass = "scene"
    /\ IF gltf.scenes = None THEN Raise("KeyError") /\ UNCHANGED scene
       ELSE IF ~PyIndexOk(gltf.scenes[1], GetOr(gltf.scene, 0))
            THEN Raise("IndexError") /\ UNCHANGED scene
       ELSE LET sc == PyAt(gltf.scenes[1], GetOr(gltf.scene, 0))
            IN IF sc.nodes = None THEN Raise("KeyError") /\ UNCHANGED scene
               ELSE IF BadNodeIndex(sc.nodes[1]) THEN Raise("IndexError") /\ UNCHANGED scene
               ELSE scene' = scene \o NodeRefs(sc.nodes[1]) /\ NextPass("animations")
    /\ UNCHANGED <<images, textures, materials, meshes, nodes, skins, animations>>
    /\ UNCHANGED <<uri_cache, decodes>>
    /\ ParseFrame

\* for i, gltf_animation in enumerate(self.gltf.get('animations', [])); then
\* parse returns
AnimationsPass ==
    /\ pass = "animations"
    /\ IF idx < Len(gltf.animations)
       THEN \E r \in {ParseAnimation(idx, gltf.animations[idx + 1], uri_cache, decodes)} :
               /\ Cached(r)
               /\ IF r.exc # "None" THEN Raise(r.exc) /\ UNCHANGED animations
                  ELSE animations' = Append(animations, r.val) /\ Advance
       ELSE NextPass("done") /\ UNCHANGED <<animations, uri_cache, decodes>>
    /\ UNCHANGED <<images, textures, materials, meshes, nodes, skins, scene>>
    /\ ParseFrame

(***************************************************************************)
(* The documents GltfData.parse is given                                   *)
(***************************************************************************)

MaxNodes == 2
MaxPrims == 2

Img(bufferView, mimeType, uri) ==
    [name |-> None, bufferView |-> bufferView, mimeType |-> mimeType, uri |-> uri]
Tex(source, basisu) == [name |-> None, source |-> source, basisu |-> basisu]
Mat(name, baseColorTexture, emissiveTexture) ==
    [name |-> name, baseColorTexture |-> baseColorTexture, metallicRoughnessTexture |-> None,
     emissiveTexture |-> emissiveTexture, normalTexture |-> None, occlusionTexture |-> None]
Prim(attributes, indices, material) ==
    [attributes |-> attributes, indices |-> indices, material |-> material]
Mesh(primitives) == [name |-> None, primitives |-> primitives]
Node(mesh, children, skin) ==
    [name |-> None, mesh |-> mesh, children |-> children, skin |-> skin]
Skin(inverseBindMatrices, skeleton, joints) ==
    [name |-> None, inverseBindMatrices |-> inverseBindMatrices, skeleton |-> skeleton,
     joints |-> joints]
Chan(sampler, node, path) == [sampler |-> sampler, node |-> node, path |-> path]
Samp(input, output) == [input |-> input, output |-> output, interpolation |-> None]
Anim(channels, samplers) == [name |-> None, channels |-> channels, samplers |-> samplers]

\* one buffer of 4 bytes in a data URI, one bufferView over it, and the accessors
\* 0: 2 unsigned shorts, 1: no bufferView and count 0, 2: 3 unsigned shorts, two
\* bytes more than the bufferView has; no mesh, no node, one scene without nodes
BaseDoc ==
    [buffers |-> <<[uri |-> Some("data:application/octet-stream;base64,AQIDBA==")]>>,
     bufferViews |-> <<[buffer |-> 0, byteOffset |-> None, byteLength |-> 4]>>,
     accessors |-> <<[bufferView |-> Some(0), byteOffset |-> None, count |-> 2,
                      componentType |-> 5123, type |-> "SCALAR"],
                     [bufferView |-> None, byteOffset |-> None, count |-> 0,
                      componentType |-> 5126, type |-> "VEC3"],
                     [bufferView |-> Some(0), byteOffset |-> None, count |-> 3,
                      componentType |-> 5123, type |-> "SCALAR"]>>,
     images |-> <<>>,
     textures |-> <<>>,
     materials |-> Some(<<Mat(Some("Red"), None, None)>>),
     meshes |-> <<>>,
     nodes |-> <<>>,
     skins |-> <<>>,
     scenes |-> Some(<<[nodes |-> Some(<<>>)]>>),
     scene |-> None,
     animations |-> <<>>]

ImageLists ==
    {<<>>,
     <<Img(None, None, Some("data:image/png;base64,AQIDBA=="))>>,
     <<Img(None, None, Some("tex.PNG"))>>,
     <<Img(Some(0), Some("image/png"), None)>>,
     <<Img(Some(1), Some("image/png"), None)>>,
     <<Img(None, None, None)>>}

TextureLists ==
    {<<>>, <<Tex(None, Some(0))>>, <<Tex(None, None)>>}
    \cup {<<Tex(Some(t), None)>> : t \in {-2, -1, 0, 1}}

MaterialLists ==
    {None, Some(<<>>), Some(<<Mat(None, None, None), Mat(Some("Blue"), None, None)>>),
     Some(<<Mat(None, Some(0), Some(0))>>)}
    \cup {Some(<<Mat(Some("Red"), t, None)>>) : t \in {None, Some(-1), Some(0), Some(1)}}

PrimSet ==
    {Prim(<<<<"POSITION", 0>>>>, None, m) : m \in {None, Some(-1), Some(0), Some(1)}}
    \cup {Prim(<<>>, None, None),
          Prim(<<<<"NORMAL", 0>>>>, None, None),
          Prim(<<<<"POSITION", 2>>>>, None, None),
          Prim(<<<<"POSITION", 1>>, <<"NORMAL", 0>>>>, Some(0), Some(0)),
          Prim(<<<<"NORMAL", 0>>, <<"POSITION", 3>>>>, None, None),
          Prim(<<<<"POSITION", -1>>, <<"FOO", 0>>>>, None, None)}

MeshLists == {<<>>} \cup {<<Mesh(ps)>> : ps \in SeqsUpTo(PrimSet, MaxPrims)}

\* a child index MaxNodes is out of range in every document
NodeSet ==
    {Node(None, ch, None) :
        ch \in {None, Some(<<>>), Some(<<0>>), Some(<<1>>), Some(<<-1>>), Some(<<1, 0>>),
                Some(<<MaxNodes>>)}}
    \cup {Node(None, None, Some(k)) : k \in {-2, -1, 0, 1}}
    \cup {Node(None, Some(<<1>>), Some(0))}

SkinLists ==
    {<<>>,
     <<Skin(None, None, <<>>)>>,
     <<Skin(Some(0), Some(0), <<1>>)>>,
     <<Skin(None, Some(-1), <<0>>)>>,
     <<Skin(None, Some(MaxNodes), <<>>)>>,
     <<Skin(None, None, <<0, MaxNodes>>)>>,
     <<Skin(Some(3), None, <<0, 1>>)>>}

SceneSet ==
    {<<None, None>>,
     <<Some(<<[nodes |-> None]>>), None>>,
     <<Some(<<[nodes |-> Some(<<0>>)]>>), None>>,
     <<Some(<<[nodes |-> Some(<<-1>>)]>>), None>>,
     <<Some(<<[nodes |-> Some(<<MaxNodes>>)]>>), None>>,
     <<Some(<<[nodes |-> Some(<<1, 0>>)]>>), Some(0)>>,
     <<Some(<<[nodes |-> Some(<<1, 0>>)]>>), Some(-1)>>,
     <<Some(<<[nodes |-> Some(<<1, 0>>)]>>), Some(1)>>}

AnimationLists ==
    {<<>>,
     <<Anim(<<Chan(Some(0), Some(0), Some("translation"))>>, <<Samp(Some(0), Some(0))>>)>>,
     <<Anim(<<Chan(Some(1), Some(1), Some("rotation"))>>, <<Samp(Some(0), Some(0))>>)>>,
     <<Anim(<<Chan(Some(-1), Some(-1), Some("scale"))>>, <<Samp(Some(0), Some(0))>>)>>,
     <<Anim(<<Chan(Some(0), Some(MaxNodes), Some("weights"))>>, <<Samp(Some(0), Some(0))>>)>>,
     <<Anim(<<Chan(Some(0), Some(0), Some("color"))>>, <<Samp(Some(0), Some(0))>>)>>,
     <<Anim(<<Chan(Some(0), None, Some("scale"))>>, <<Samp(Some(0), Some(0))>>)>>,
     <<Anim(<<Chan(Some(0), Some(0), Some("scale"))>>, <<Samp(Some(0), Some(3))>>)>>,
     <<Anim(<<>>, <<Samp(None, Some(0))>>)>>}

\* documents whose images, textures and materials vary
ResourceDocs ==
    {[BaseDoc EXCEPT !.images = im, !.textures = tx, !.materials = mt] :
        im \in ImageLists, tx \in TextureLists, mt \in MaterialLists}

\* documents whose materials and meshes vary
MeshDocs ==
    {[BaseDoc EXCEPT !.materials = mt, !.meshes = ms] :
        mt \in MaterialLists, ms \in MeshLists}

\* documents whose nodes and skins vary
GraphDocs ==
    {[BaseDoc EXCEPT !.nodes = ns, !.skins = sk] :
        ns \in SeqsUpTo(NodeSet, MaxNodes), sk \in SkinLists}

\* documents of two nodes whose node mesh, scenes and animations vary
SceneDocs ==
    {[BaseDoc EXCEPT !.meshes = <<Mesh(<<Prim(<<<<"POSITION", 0>>>>, None, None)>>)>>,
                     !.nodes = <<Node(m, None, None), Node(None, None, None)>>,
                     !.scenes = sc[1], !.scene = sc[2], !.animations = an] :
        m \in {None, Some(-2), Some(-1), Some(0), Some(1)}, sc \in SceneSet,
        an \in AnimationLists}

GltfDocs == ResourceDocs \cup MeshDocs \cup GraphDocs \cup SceneDocs

InitParse ==
    /\ GlbIdle
    /\ \E d \in GltfDocs : ReaderStart(d, None, TRUE)
    /\ DataStart

NextParse ==
    \/ ImagesPass
    \/ TexturesPass
    \/ MaterialsPass
    \/ MeshesPass
    \/ NodesPass
    \/ SkinsPass
    \/ Nodes2Pass
    \/ ScenePass
    \/ AnimationsPass

SpecParse == InitParse /\ [][NextParse]_vars

(***************************************************************************)
(* Claims about GltfData.parse                                             *)
(***************************************************************************)

\* an index that names an element of an array of n elements
InRange(k, n) == 0 <= k /\ k < n

\* an optional index that, when present, names an element of an array of n
OptInRange(ref, n) == ref = None \/ InRange(ref[1], n)

\* every index-valued cross-reference of the document names an element of the
\* array it refers to
RefsInRange ==
    LET mats == GetOr(gltf.materials, <<>>)
        scs == GetOr(gltf.scenes, <<>>)
    IN /\ \A k \in 1..Len(gltf.bufferViews) :
            InRange(gltf.bufferViews[k].buffer, Len(gltf.buffers))
       /\ \A k \in 1..Len(gltf.images) :
            OptInRange(gltf.images[k].bufferView, Len(gltf.bufferViews))
       /\ \A k \in 1..Len(gltf.textures) :
            /\ OptInRange(gltf.textures[k].source, Len(gltf.images))
            /\ OptInRange(gltf.textures[k].basisu, Len(gltf.images))
       /\ \A k \in 1..Len(mats) :
            /\ OptInRange(mats[k].baseColorTexture, Len(gltf.textures))
            /\ OptInRange(mats[k].metallicRoughnessTexture, Len(gltf.textures))
            /\ OptInRange(mats[k].emissiveTexture, Len(gltf.textures))
            /\ OptInRange(mats[k].normalTexture, Len(gltf.textures))
            /\ OptInRange(mats[k].occlusionTexture, Len(gltf.textures))
       /\ \A k \in 1..Len(gltf.meshes) : \A j \in 1..Len(gltf.meshes[k].primitives) :
            LET p == gltf.meshes[k].primitives[j]
            IN /\ OptInRange(p.material, Len(mats))
               /\ OptInRange(p.indices, Len(gltf.accessors))
               /\ \A a \in 1..Len(p.attributes) :
                    InRange(p.attributes[a][2], Len(gltf.accessors))
       /\ \A k \in 1..Len(gltf.nodes) :
            /\ OptInRange(gltf.nodes[k].mesh, Len(gltf.meshes))
            /\ OptInRange(gltf.nodes[k].skin, Len(gltf.skins))
            /\ \A j \in 1..Len(GetOr(gltf.nodes[k].children, <<>>)) :
                    InRange(gltf.nodes[k].children[1][j], Len(gltf.nodes))
       /\ \A k \in 1..Len(gltf.skins) :
            /\ OptInRange(gltf.skins[k].inverseBindMatrices, Len(gltf.accessors))
            /\ OptInRange(gltf.skins[k].skeleton, Len(gltf.nodes))
            /\ \A j \in 1..Len(gltf.skins[k].joints) :
                    InRange(gltf.skins[k].joints[j], Len(gltf.nodes))
       /\ InRange(GetOr(gltf.scene, 0), Len(scs))
       /\ \A k \in 1..Len(scs) : \A j \in 1..Len(GetOr(scs[k].nodes, <<>>)) :
            InRange(scs[k].nodes[1][j], Len(gltf.nodes))
       /\ \A k \in 1..Len(gltf.animations) :
            /\ \A j \in 1..Len(gltf.animations[k].channels) :
                 /\ OptInRange(gltf.animations[k].channels[j].node, Len(gltf.nodes))
                 /\ OptInRange(gltf.animations[k].channels[j].sampler,
                               Len(gltf.animations[k].samplers))
            /\ \A j \in 1..Len(gltf.animations[k].samplers) :
                 /\ OptInRange(gltf.animations[k].samplers[j].input, Len(gltf.accessors))
                 /\ OptInRange(gltf.animations[k].samplers[j].output, Len(gltf.accessors))

\* C2, as the specification states it: a parse that returns has met no
\* cross-reference outside 0 <= index < length of the array it refers to, so every
\* such index, a negative one included, made the parse fail. The code does not
\* have this property: Python's list indexing resolves a negative index from the
\* end of the list, and the sampler index of an animation channel is stored as it
\* is.
C2_OutOfRangeFails == pass = "done" => RefsInRange

\* C8, as the specification states it: a parse of a document without a
\* `materials` array does not return. The code does not have this property: the
\* else branch builds a NotImplementedError and drops it.
C8_NoMaterialsFails == gltf.materials = None => pass # "done"

\* C9: after a parse that returned, every node has as children, in order and in
\* the same number, the nodes its JSON children name (nodes[c] as Python indexes
\* the list, a c greater than the node's own index included), each one a node of
\* self.nodes; a node whose JSON object has a skin index s has skins[s] itself
\* as its skin, and a node without one has the skin None.
C9_NodesResolved ==
    pass = "done" =>
        /\ Len(nodes) = Len(gltf.nodes)
        /\ \A i \in 1..Len(gltf.nodes) :
            LET ch == GetOr(gltf.nodes[i].children, <<>>)
                s == gltf.nodes[i].skin
            IN /\ nodes[i].index = i - 1
               /\ Len(nodes[i].children) = Len(ch)
               /\ \A j \in 1..Len(ch) :
                    /\ InRange(nodes[i].children[j], Len(nodes))
                    /\ nodes[i].children[j] = IF ch[j] >= 0 THEN ch[j] ELSE Len(nodes) + ch[j]
               /\ s = None => nodes[i].skin = None
               /\ s # None =>
                    /\ nodes[i].skin # None
                    /\ InRange(nodes[i].skin[1], Len(skins))
                    /\ nodes[i].skin[1] = IF s[1] >= 0 THEN s[1] ELSE Len(skins) + s[1]
                    /\ skins[nodes[i].skin[1] + 1].index = nodes[i].skin[1]

\* C9's case: a parse returned for a document in which a node names a child of a
\* higher index than its own and a node names a skin
C9_Witness ==
    /\ pass = "done"
    /\ \E i \in 1..Len(gltf.nodes) :
        \E j \in 1..Len(GetOr(gltf.nodes[i].children, <<>>)) :
            gltf.nodes[i].children[1][j] > i - 1
    /\ \E i \in 1..Len(gltf.nodes) : gltf.nodes[i].skin # None
    /\ \E i \in 1..Len(gltf.nodes) : gltf.nodes[i].skin = None

\* C10: every primitive built from a JSON object without a `material` key has a
\* material of index -1, base color (1,1,1,1), metallic 0, roughness 1, emissive
\* (0,0,0), alpha mode OPAQUE, alpha cutoff 0.5, not double sided and without a
\* texture; every primitive built from one with the material index m has
\* materials[m] (as Python indexes the list); every primitive has a material.
C10_PrimitiveMaterial ==
    \A k \in 1..Len(meshes) : \A j \in 1..Len(meshes[k].primitives) :
        LET m == gltf.meshes[k].primitives[j].material
            got == meshes[k].primitives[j].material
        IN /\ "index" \in DOMAIN got
           /\ m = None =>
                /\ got.index = -1
                /\ got.base_color_factor = <<1, 1, 1, 1>>
                /\ got.metallic_factor = 0
                /\ got.roughness_factor = 1
                /\ got.emissive_factor = <<0, 0, 0>>
                /\ got.alpha_mode = "OPAQUE"
                /\ got.alpha_cutoff = "0.5"
                /\ got.double_sided = FALSE
                /\ got.base_color_texture = None
                /\ got.metallic_roughness_texture = None
                /\ got.emissive_texture = None
                /\ got.normal_texture = None
                /\ got.occlusion_texture = None
           /\ m # None =>
                /\ -Len(materials) <= m[1] /\ m[1] < Len(materials)
                /\ got = materials[IF m[1] >= 0 THEN m[1] + 1 ELSE Len(materials) + m[1] + 1]

\* C10's case: a parse returned with a mesh of one primitive without a `material`
\* key and one with the index of the second of two materials
C10_Witness ==
    /\ pass = "done"
    /\ Len(materials) = 2
    /\ \E k \in 1..Len(meshes) :
        /\ \E j \in 1..Len(meshes[k].primitives) : gltf.meshes[k].primitives[j].material = None
        /\ \E j \in 1..Len(meshes[k].primitives) : gltf.meshes[k].primitives[j].material = Some(1)

\* whether the attributes of a JSON primitive have the key
HasKey(attributes, key) == \E a \in 1..Len(attributes) : attributes[a][1] = key

\* C11: every mesh _parse_mesh returned has, for each of its primitives, the
\* key POSITION in the JSON attributes and a position view that is not None,
\* also when the accessor has count 0; so _parse_mesh fails for a mesh with a
\* primitive without POSITION, and a parse that returned has met no such mesh.
C11_PositionRequired ==
    /\ Len(meshes) <= Len(gltf.meshes)
    /\ \A k \in 1..Len(meshes) :
        /\ Len(meshes[k].primitives) = Len(gltf.meshes[k].primitives)
        /\ \A j \in 1..Len(meshes[k].primitives) :
            /\ HasKey(gltf.meshes[k].primitives[j].attributes, "POSITION")
            /\ meshes[k].primitives[j].position # None
    /\ pass = "done" =>
        \A k \in 1..Len(gltf.meshes) : \A j \in 1..Len(gltf.meshes[k].primitives) :
            HasKey(gltf.meshes[k].primitives[j].attributes, "POSITION")

\* C11's case: a parse returned with a primitive whose POSITION accessor has
\* count 0: its view is there and has no element
C11_Witness ==
    /\ pass = "done"
    /\ \E k \in 1..Len(meshes) : \E j \in 1..Len(meshes[k].primitives) :
        /\ gltf.meshes[k].primitives[j].attributes[1] = <<"POSITION", 1>>
        /\ gltf.accessors[2].count = 0
        /\ meshes[k].primitives[j].position # None
        /\ GetCount(meshes[k].primitives[j].position[1]) = 0

\* the number of root nodes of the active scene, 0 when there is none
ActiveRoots ==
    IF gltf.scenes = None \/ ~PyIndexOk(gltf.scenes[1], GetOr(gltf.scene, 0)) THEN 0
    ELSE Len(GetOr(PyAt(gltf.scenes[1], GetOr(gltf.scene, 0)).nodes, <<>>))

\* all nine passes went over all their elements
AllPassesCompleted ==
    /\ Len(images) = Len(gltf.images)
    /\ Len(textures) = Len(gltf.textures)
    /\ Len(materials) = Len(GetOr(gltf.materials, <<>>))
    /\ Len(meshes) = Len(gltf.meshes)
    /\ Len(nodes) = Len(gltf.nodes)
    /\ Len(skins) = Len(gltf.skins)
    /\ \A i \in 1..Len(nodes) :
          Len(nodes[i].children) = Len(GetOr(gltf.nodes[i].children, <<>>))
    /\ Len(scene) = ActiveRoots
    /\ Len(animations) = Len(gltf.animations)

\* C12: a parse is all or nothing. parse returns (and parse_gltf hands out the
\* GltfData) only when no exception was raised and all nine passes went over all
\* their elements; once a pass has raised, an exception is recorded, parse has
\* not returned, and no step of parse follows.
C12_AllOrNothing ==
    /\ [](pass = "done" => error = "None" /\ AllPassesCompleted)
    /\ [](pass = "raised" <=> error # "None")
    /\ [][pass # "raised" /\ pass # "done"]_vars

\* C12's case: a pass raised after earlier passes had built nodes, and the
\* animations of the document were left unprocessed
C12_Witness ==
    /\ pass = "raised"
    /\ error # "None"
    /\ Len(nodes) > 0
    /\ Len(gltf.animations) > 0
    /\ animations = <<>>

\* the view a GltfPrimitive holds for an attribute key
AttrView(prim, key) ==
    CASE key = "POSITION" -> prim.position
      [] key = "NORMAL" -> prim.normal
      [] key = "TEXCOORD_0" -> prim.uv0
      [] key = "TEXCOORD_1" -> prim.uv1
      [] key = "TEXCOORD_2" -> prim.uv2
      [] key = "TANGENT" -> prim.tangent
      [] key = "COLOR_0" -> prim.color
      [] key = "JOINTS_0" -> prim.joints
      [] key = "WEIGHTS_0" -> prim.weights

\* the entry at position i of a list carries index i
IndexStable(list) == \A i \in 1..Len(list) : list[i].index = i - 1

\* C13, as the specification states it: after a parse that returned, each list
\* has one entry per element of the JSON array of its name, the entry at
\* position i with index i, and the view of every primitive attribute has
\* get_count() equal to the count its accessor declares. The code does not have
\* the last property: read_accessor slices the bufferView's bytes, and a slice
\* shorter than count elements is cast as it is.
C13_ListsMirrorJson ==
    pass = "done" =>
        /\ Len(images) = Len(gltf.images) /\ IndexStable(images)
        /\ Len(textures) = Len(gltf.textures) /\ IndexStable(textures)
        /\ Len(materials) = Len(GetOr(gltf.materials, <<>>)) /\ IndexStable(materials)
        /\ Len(meshes) = Len(gltf.meshes) /\ IndexStable(meshes)
        /\ Len(nodes) = Len(gltf.nodes) /\ IndexStable(nodes)
        /\ Len(skins) = Len(gltf.skins) /\ IndexStable(skins)
        /\ Len(animations) = Len(gltf.animations) /\ IndexStable(animations)
        /\ \A k \in 1..Len(meshes) : \A j \in 1..Len(meshes[k].primitives) :
            LET attributes == gltf.meshes[k].primitives[j].attributes
            IN \A a \in 1..Len(attributes) :
                /\ AttrView(meshes[k].primitives[j], attributes[a][1]) # None
                /\ GetCount(AttrView(meshes[k].primitives[j], attributes[a][1])[1])
                      = PyAt(gltf.accessors, attributes[a][2]).count

\* whether node b is reached from node a by following children references, at
\* most n of them
RECURSIVE ReachIn(_, _, _)
ReachIn(a, b, n) ==
    /\ n > 0
    /\ \E j \in 1..Len(nodes[a + 1].children) :
        \/ nodes[a + 1].children[j] = b
        \/ ReachIn(nodes[a + 1].children[j], b, n - 1)

\* C14, as the specification states it: after a parse that returned, no node is
\* reached from itself by following children references. The code does not have
\* this property: the second pass appends self.nodes[child_index] whatever the
\* index is, the node's own or an ancestor's included.
C14_Acyclic ==
    pass = "done" => \A i \in 0..(Len(nodes) - 1) : ~ReachIn(i, i, Len(nodes))

\* the passes of GltfData.parse in the order of the specification
PassOrder == <<"images", "textures", "materials", "meshes", "nodes", "skins", "nodes2",
               "scene", "animations">>

\* the place of a pass in the order; parse has returned after the last
Rank(p) == IF p = "done" THEN Len(PassOrder) + 1
           ELSE CHOOSE r \in 1..Len(PassOrder) : PassOrder[r] = p

\* pass r went over every element of its array
DoneAt(r) ==
    CASE r = 1 -> Len(images) = Len(gltf.images)
      [] r = 2 -> Len(textures) = Len(gltf.textures)
      [] r = 3 -> Len(materials) = Len(GetOr(gltf.materials, <<>>))
      [] r = 4 -> Len(meshes) = Len(gltf.meshes)
      [] r = 5 -> Len(nodes) = Len(gltf.nodes)
      [] r = 6 -> Len(skins) = Len(gltf.skins)
      [] r = 7 -> \A i \in 1..Len(nodes) :
                    /\ Len(nodes[i].children) = Len(GetOr(gltf.nodes[i].children, <<>>))
                    /\ (nodes[i].skin = None) = (gltf.nodes[i].skin = None)
      [] r = 8 -> Len(scene) = ActiveRoots
      [] r = 9 -> Len(animations) = Len(gltf.animations)

\* pass r has processed no element
EmptyAt(r) ==
    CASE r = 1 -> images = <<>>
      [] r = 2 -> textures = <<>>
      [] r = 3 -> materials = <<>>
      [] r = 4 -> meshes = <<>>
      [] r = 5 -> nodes = <<>>
      [] r = 6 -> skins = <<>>
      [] r = 7 -> \A i \in 1..Len(nodes) : nodes[i].children = <<>> /\ nodes[i].skin = None
      [] r = 8 -> scene = <<>>
      [] r = 9 -> animations = <<>>

\* parse is in pass r: the earlier passes are complete, the later ones not begun
StagedAt(r) ==
    /\ \A q \in 1..(r - 1) : DoneAt(q)
    /\ \A q \in (r + 1)..Len(PassOrder) : EmptyAt(q)

\* the list a pass appends to, <<>> for the passes that append to none
ListOf(p) ==
    CASE p = "images" -> images
      [] p = "textures" -> textures
      [] p = "materials" -> materials
      [] p = "meshes" -> meshes
      [] p = "nodes" -> nodes
      [] p = "skins" -> skins
      [] p = "animations" -> animations
      [] OTHER -> <<>>

\* C16: parse goes through its passes in the order images, textures, materials,
\* meshes, nodes, skins, node children and skins, scene roots, animations. While
\* a pass runs, every earlier pass has gone over all its elements (so the lists
\* it refers to are complete), no later pass has begun, and the pass has
\* processed its elements 0..idx-1 in order; a step stays in the pass, taking
\* the next index, or begins the next pass, or raises. When parse has raised,
\* the passes before the failing one are complete and the ones after it have
\* not begun, and a failure in the images or textures is the exception of the
\* first element not processed.
C16_PassOrder ==
    /\ [](pass \notin {"idle", "raised"} =>
            /\ StagedAt(Rank(pass))
            /\ pass \in {"images", "textures", "materials", "meshes", "nodes", "skins",
                         "animations"} =>
                    Len(ListOf(pass)) = idx /\ IndexStable(ListOf(pass)))
    /\ [](pass = "raised" =>
            /\ \E r \in 1..Len(PassOrder) : StagedAt(r)
            /\ Len(images) < Len(gltf.images) =>
                 error = ParseImage(Len(images), gltf.images[Len(images) + 1],
                                    uri_cache, decodes).exc
            /\ Len(images) = Len(gltf.images) /\ Len(textures) < Len(gltf.textures) =>
                 error = ParseTexture(Len(textures), gltf.textures[Len(textures) + 1]).exc)
    /\ [][pass \notin {"idle", "raised", "done"} =>
            \/ pass' = pass /\ idx' = idx + 1
            \/ pass' = "raised" /\ idx' = idx
            \/ Rank(pass') = Rank(pass) + 1 /\ idx' = 0]_vars

\* C16's case: a document with a defect in its image and another in its
\* texture: the images pass raised, GltfError, and no texture was processed
C16_Witness ==
    /\ pass = "raised"
    /\ error = "GltfError"
    /\ gltf.images = <<Img(None, None, None)>>
    /\ gltf.textures = <<Tex(None, None)>>
    /\ images = <<>>
    /\ textures = <<>>

(***************************************************************************)
(* Claims about the buffer reader and the typed view                       *)
(***************************************************************************)

\* the accessor the last read_accessor call read
ReadAcc == PyAt(gltf.accessors, slice.accessor)

\* C3: a slice read_accessor returns for an accessor with a bufferView covers
\* element_size * components * count bytes, and get_count() is the declared count.
C3_SliceCoversCount ==
    (slice.exc = "None" /\ ReadAcc.bufferView # None)
        => /\ Len(slice.val.scalar_view) * slice.val.itemsize
                = ComponentSize(ReadAcc.componentType) * ElementCount(ReadAcc.type)
                  * ReadAcc.count
           /\ GetCount(slice.val) = ReadAcc.count

\* C4: get_item(i) returns the element_count scalars at positions
\* i*element_count .. i*element_count+element_count-1 when 0 <= i < get_count(),
\* and fails for every other i.
C4_GetItemInRangeOrFails ==
    item.exc # "none"
        => IF 0 <= item.i /\ item.i < GetCount(slice.val)
           THEN /\ item.exc = "None"
                /\ item.view = [k \in 1..slice.val.element_count |->
                                  slice.val.scalar_view[item.i * slice.val.element_count + k]]
           ELSE item.exc # "None"

\* C5: the decode or read of a URI is performed at most once in a session, and a
\* successful call returns the bytes the cache holds for the URI.
C5_DecodeOnce ==
    /\ \A u \in URIS : decodes[u] <= 1
    /\ (uri_ret.uri \in URIS /\ uri_ret.exc = "None")
          => uri_cache[uri_ret.uri] = Some(uri_ret.val)

====
